---- MODULE Spec2Model ----
(***************************************************************************)
(* TimeKeeper: the record-persistence engine db::Database                  *)
(* (src/src/Database.cpp, src/include/Database.h) over its SQLite file,    *)
(* with the two tables src/src/main.cpp declares.                          *)
(*                                                                         *)
(* The stored state is the SQLite file: for every table its declared       *)
(* columns, its rows (keyed by the rowid alias `id`) and, for an           *)
(* AUTOINCREMENT table, its sqlite_sequence entry.  Every engine operation *)
(* is one action; `result` records the last call, its arguments and what   *)
(* it returned or threw.                                                   *)
(*                                                                         *)
(* Further specifications over the same state: SpecMain, the runs of main  *)
(* (src/src/main.cpp) call by call; SpecStep, the reads when sqlite3_step  *)
(* reports an error; SpecParse, tike::ArgParser::parse                     *)
(* (src/src/ArgParser.cpp); SpecBind, the text and the bindings of a       *)
(* statement; SpecDecode, the decode of a 64-bit integer column; SpecStmt,  *)
(* the life of the sqlite3_stmt of every operation.                        *)
(***************************************************************************)
EXTENDS Integers, Sequences, FiniteSets, TLC

VARIABLES schema, rows, seq, result, proc, stepError, parser, stmt, cell, life

vars == <<schema, rows, seq, result, proc, stepError, parser, stmt, cell, life>>

\* the state outside the SQLite file and the last call: the process running
\* main, the call of sqlite3_step at which the store reported an error
\* during the last read (0: at none), a tike::ArgParser with the command
\* line it is given, a statement as an operation writes and binds it, an
\* integer column with the Field decoded from it, and the calls the last
\* operation made on its sqlite3_stmt
outside == <<proc, stepError, parser, stmt, cell, life>>

\* what a step of main leaves alone besides the file and the last call
besideMain == <<stepError, parser, stmt, cell, life>>

\* what a read of the engine leaves alone besides the file
besideStep == <<proc, parser, stmt, cell, life>>

(***************************************************************************)
(* Bounds of the model.                                                    *)
(***************************************************************************)
\* most rows a table holds
MaxRows == 2
\* largest primary key a row gets
MaxId == 3

(***************************************************************************)
(* db::Field : std::variant<int, double, std::string>, and the storage     *)
(* classes of SQLite values.  A text is a sequence of characters.          *)
(***************************************************************************)
Integer(n) == [kind |-> "int", i |-> n, s |-> <<>>]

Text(str) == [kind |-> "text", i |-> 0, s |-> str]

\* the storage class NULL; never a db::Field
Null == [kind |-> "null", i |-> 0, s |-> <<>>]

DigitChars == <<"0", "1", "2", "3", "4", "5", "6", "7", "8", "9">>

DigitValue(c) == (CHOOSE d \in 1..Len(DigitChars) : DigitChars[d] = c) - 1

IsDigit(c) == \E d \in 1..Len(DigitChars) : DigitChars[d] = c

RECURSIVE NatToText(_)
NatToText(n) ==
    IF n < 10 THEN <<DigitChars[n + 1]>>
    ELSE NatToText(n \div 10) \o <<DigitChars[(n % 10) + 1]>>

\* SQLite's rendering of an INTEGER value as TEXT
IntToText(n) == IF n < 0 THEN <<"-">> \o NatToText(0 - n) ELSE NatToText(n)

RECURSIVE DigitsToNat(_)
DigitsToNat(str) ==
    IF str = <<>> THEN 0
    ELSE 10 * DigitsToNat(SubSeq(str, 1, Len(str) - 1)) + DigitValue(str[Len(str)])

AllDigits(str) == str /= <<>> /\ \A p \in 1..Len(str) : IsDigit(str[p])

\* a text SQLite reads as a well-formed integer literal
LooksLikeInteger(str) ==
    \/ AllDigits(str)
    \/ Len(str) > 1 /\ str[1] = "-" /\ AllDigits(Tail(str))

TextToInt(str) ==
    IF str[1] = "-" THEN 0 - DigitsToNat(Tail(str)) ELSE DigitsToNat(str)

(***************************************************************************)
(* The schema main declares (db::Column lists) and SQLite's reading of it. *)
(***************************************************************************)
Tables == {"tasks", "completedTasks"}

Column(name, type, primaryKey, autoIncrement, defaultVal) ==
    [name |-> name, type |-> type, primaryKey |-> primaryKey,
     autoIncrement |-> autoIncrement, defaultVal |-> defaultVal]

TasksColumns ==
    << Column("id", "INTEGER", TRUE, TRUE, "none"),
       Column("title", "TEXT", FALSE, FALSE, "none"),
       Column("description", "TEXT", FALSE, FALSE, "none"),
       Column("timeCreated", "DATETIME", FALSE, FALSE, "CURRENT_TIMESTAMP") >>

CompletedTasksColumns ==
    << Column("id", "INTEGER", TRUE, FALSE, "none"),
       Column("title", "TEXT", FALSE, FALSE, "none"),
       Column("description", "TEXT", FALSE, FALSE, "none"),
       Column("timeCreated", "DATETIME", FALSE, FALSE, "none"),
       Column("timeCompleted", "DATETIME", FALSE, FALSE, "CURRENT_TIMESTAMP") >>

\* the column list main passes for each table
DeclaredColumns(table) ==
    IF table = "tasks" THEN TasksColumns ELSE CompletedTasksColumns

\* the column lists createTable is called with; <<>> is the empty list
ColumnLists == {<<>>, TasksColumns, CompletedTasksColumns}

ColumnNames(columns) == {columns[c].name : c \in 1..Len(columns)}

ColumnNamed(columns, name) ==
    columns[CHOOSE c \in 1..Len(columns) : columns[c].name = name]

\* SQLite's column affinity, from the declared type
Affinity(type) ==
    CASE type = "INTEGER" -> "INTEGER"
      [] type = "TEXT" -> "TEXT"
      [] OTHER -> "NUMERIC"

\* what SQLite stores in a column of that affinity when handed `value`
ApplyAffinity(affinity, value) ==
    CASE affinity = "TEXT" /\ value.kind = "int" -> Text(IntToText(value.i))
      [] affinity \in {"INTEGER", "NUMERIC"} /\ value.kind = "text"
            /\ LooksLikeInteger(value.s) -> Integer(TextToInt(value.s))
      [] OTHER -> value

\* the reading of the clock that CURRENT_TIMESTAMP yields
Timestamps == { <<"t">> }

AutoIncrement(columns) == \E c \in 1..Len(columns) : columns[c].autoIncrement

(***************************************************************************)
(* Rows.  A row is a function from the table's column names to stored      *)
(* values; `id` is INTEGER PRIMARY KEY, the rowid, so a table holds at     *)
(* most one row per id and a scan visits rows in ascending id.             *)
(***************************************************************************)
RowIds(rs) == {r["id"].i : r \in rs}

MaxOf(S) == CHOOSE m \in S : \A o \in S : o <= m

\* (variant: the scan run from the largest rowid down)
RECURSIVE TableScanDescending(_)
TableScanDescending(rs) ==
    IF rs = {} THEN <<>>
    ELSE LET first == CHOOSE r \in rs : \A o \in rs : r["id"].i >= o["id"].i
         IN  <<first>> \o TableScanDescending(rs \ {first})

\* SELECT * FROM table: the rows in the order a scan of the table yields them
RECURSIVE TableScan(_)
TableScan(rs) ==
    IF rs = {} THEN <<>>
    ELSE LET first == CHOOSE r \in rs : \A o \in rs : r["id"].i <= o["id"].i
         IN  <<first>> \o TableScan(rs \ {first})

\* WITH PseudoIDs AS (SELECT ROW_NUMBER() OVER (ORDER BY id) AS pseudo_id, id ...)
\* (variant: the rank counted from 0)
PseudoIDsFromZero(rs) ==
    { [pseudo_id |-> Cardinality({o \in rs : o["id"].i < r["id"].i}),
       id |-> r["id"].i] : r \in rs }

\* (variant: ORDER BY id DESC)
PseudoIDsDescending(rs) ==
    { [pseudo_id |-> Cardinality({o \in rs : o["id"].i > r["id"].i}) + 1,
       id |-> r["id"].i] : r \in rs }

PseudoIDs(rs) ==
    { [pseudo_id |-> Cardinality({o \in rs : o["id"].i < r["id"].i}) + 1,
       id |-> r["id"].i] : r \in rs }

\* (variant: WHERE pseudo_id >= ?, the scalar subquery keeping its first row)
ResolvePseudoIdAtLeast(rs, pseudoId) ==
    LET ids == { p.id : p \in { q \in PseudoIDs(rs) : q.pseudo_id >= pseudoId } }
    IN  IF ids = {} THEN {} ELSE {CHOOSE m \in ids : \A o \in ids : m <= o}

\* (SELECT id FROM PseudoIDs WHERE pseudo_id = ?): the ids the subquery yields
ResolvePseudoId(rs, pseudoId) ==
    { p.id : p \in { q \in PseudoIDs(rs) : q.pseudo_id = pseudoId } }

\* (variant: WHERE id = ?, the ordinal taken for the primary key)
RowsWithRawId(rs, pseudoId) == { r \in rs : r["id"].i = pseudoId }

\* WHERE id = (subquery): no row when the subquery yields none (id = NULL)
RowsWithResolvedId(rs, pseudoId) ==
    { r \in rs : r["id"].i \in ResolvePseudoId(rs, pseudoId) }

(***************************************************************************)
(* Decoding a result row into a db::Record (the switch on                  *)
(* sqlite3_column_type).                                                   *)
(***************************************************************************)
EmptyData == [key \in {} |-> Null]

\* sqlite3_column_int: every integer of this model fits an int
ColumnInt(n) == n

DecodeColumn(value) ==
    CASE value.kind = "int" -> Integer(ColumnInt(value.i))
      [] value.kind = "text" -> Text(value.s)
      [] OTHER -> Text(<<>>)

\* (variant: a NULL column left out of the record)
DecodeRowSkippingNull(row) ==
    [name \in { n \in DOMAIN row : row[n].kind /= "null" } |-> DecodeColumn(row[name])]

DecodeRow(row) == [name \in DOMAIN row |-> DecodeColumn(row[name])]

DecodeRows(scan) == [p \in 1..Len(scan) |-> DecodeRow(scan[p])]

(***************************************************************************)
(* The statements the engine builds, and what sqlite3_prepare_v2 makes of  *)
(* them.                                                                   *)
(***************************************************************************)
\* the keys of a RecordData in the order the map is traversed
RECURSIVE KeysOf(_)
KeysOf(keys) ==
    IF keys = {} THEN <<>>
    ELSE LET key == CHOOSE k \in keys : TRUE
         IN  <<key>> \o KeysOf(keys \ {key})

\* whereClause / columns: one entry per key of the mapping
WhereClause(data) == KeysOf(DOMAIN data)

TableExists(columns) == columns /= <<>>

\* "... WHERE <whereClause>" and "INSERT INTO t (<columns>) VALUES (<placeholders>)"
\* compile when the table exists, the list is not empty and names its columns
\* (variant: the WHERE keyword left out of the text when the list is empty)
PreparesEmptyClause(columns, clause) ==
    /\ TableExists(columns)
    /\ \A p \in 1..Len(clause) : clause[p] \in ColumnNames(columns)

Prepares(columns, clause) ==
    /\ TableExists(columns)
    /\ clause /= <<>>
    /\ \A p \in 1..Len(clause) : clause[p] \in ColumnNames(columns)

\* column = ? with the Field bound: the column's affinity is applied to the
\* bound value and a NULL column equals nothing
ComparesEqual(columns, row, key, value) ==
    /\ row[key].kind /= "null"
    /\ row[key] = ApplyAffinity(Affinity(ColumnNamed(columns, key).type), value)

\* (variant: the conditions joined with OR)
MatchesAnyKey(columns, row, data) ==
    \E key \in DOMAIN data : ComparesEqual(columns, row, key, data[key])

\* the conjunction of column = ? over every key of the filter
Matches(columns, row, data) ==
    \A key \in DOMAIN data : ComparesEqual(columns, row, key, data[key])

MatchingRows(columns, rs, data) == { r \in rs : Matches(columns, r, data) }

(***************************************************************************)
(* The outcome of each read, as a function of the stored state.            *)
(***************************************************************************)
Outcome(status, record, records) ==
    [status |-> status, record |-> record, records |-> records]

\* db::Database::getAllRecords
GetAllRecordsOutcome(columns, rs) ==
    IF ~TableExists(columns) THEN Outcome("backing_store", EmptyData, <<>>)
    ELSE Outcome("ok", EmptyData, DecodeRows(TableScan(rs)))

\* (variant: an empty Record returned when the ordinal resolves to no row,
\* the case main tests with record.data.empty())
GetRecordByPseudoIdOutcomeEmpty(columns, rs, pseudoId) ==
    IF ~TableExists(columns) THEN Outcome("backing_store", EmptyData, <<>>)
    ELSE LET found == TableScan(RowsWithResolvedId(rs, pseudoId))
         IN  IF found = <<>> THEN Outcome("ok", EmptyData, <<>>)
             ELSE Outcome("ok", DecodeRow(found[1]), <<>>)

\* db::Database::getRecordByPseudoId
GetRecordByPseudoIdOutcome(columns, rs, pseudoId) ==
    IF ~TableExists(columns) THEN Outcome("backing_store", EmptyData, <<>>)
    ELSE LET found == TableScan(RowsWithResolvedId(rs, pseudoId))
         IN  IF found = <<>> THEN Outcome("not_found", EmptyData, <<>>)
             ELSE Outcome("ok", DecodeRow(found[1]), <<>>)

\* db::Database::getRecord
GetRecordOutcome(columns, rs, data) ==
    IF ~Prepares(columns, WhereClause(data))
    THEN Outcome("backing_store", EmptyData, <<>>)
    ELSE LET found == TableScan(MatchingRows(columns, rs, data))
         IN  IF found = <<>> THEN Outcome("not_found", EmptyData, <<>>)
             ELSE Outcome("ok", DecodeRow(found[1]), <<>>)

(***************************************************************************)
(* INSERT: the row SQLite appends for a bound record.                      *)
(***************************************************************************)
\* the rowid SQLite picks when the record binds no id
NextRowid(columns, rs, sequence) ==
    LET largest == IF rs = {} THEN 0 ELSE MaxOf(RowIds(rs))
    IN  IF AutoIncrement(columns) /\ sequence > largest THEN sequence + 1
        ELSE largest + 1

\* the value bound to id, as the INTEGER PRIMARY KEY column takes it
BoundId(data) == ApplyAffinity("INTEGER", data["id"])

\* sqlite3_step fails: datatype mismatch, or the primary key is taken
InsertFails(rs, data) ==
    /\ "id" \in DOMAIN data
    /\ \/ BoundId(data).kind /= "int"
       \/ BoundId(data).i \in RowIds(rs)

InsertedId(columns, rs, sequence, data) ==
    IF "id" \in DOMAIN data THEN BoundId(data).i
    ELSE NextRowid(columns, rs, sequence)

\* (variant: the bind loop left out, every placeholder staying NULL)
InsertedRowUnbound(columns, rs, sequence, data, now) ==
    [name \in ColumnNames(columns) |->
        IF name = "id" THEN Integer(InsertedId(columns, rs, sequence, data))
        ELSE IF ColumnNamed(columns, name).defaultVal = "CURRENT_TIMESTAMP"
             THEN Text(now)
        ELSE Null]

InsertedRow(columns, rs, sequence, data, now) ==
    [name \in ColumnNames(columns) |->
        IF name = "id" THEN Integer(InsertedId(columns, rs, sequence, data))
        ELSE IF name \in DOMAIN data
             THEN ApplyAffinity(Affinity(ColumnNamed(columns, name).type), data[name])
        ELSE IF ColumnNamed(columns, name).defaultVal = "CURRENT_TIMESTAMP"
             THEN Text(now)
        ELSE Null]

(***************************************************************************)
(* The inputs the operations are called with.                              *)
(***************************************************************************)
\* a RecordData: a function from its keys to Fields
Data1(key, field) == [k \in {key} |-> field]

Data2(key1, field1, key2, field2) ==
    [k \in {key1, key2} |-> IF k = key1 THEN field1 ELSE field2]

TitleOnly == Data1("title", Text(<<"a">>))

\* the records and filters `tasks` is called with: no field, a title, an
\* Integer for the TEXT column title, an id of the caller's with a title
TasksMappings ==
    { EmptyData, TitleOnly, Data1("title", Integer(1)),
      Data2("id", Integer(2), "title", Text(<<"a">>)) }

\* the records and filters `completedTasks` is called with
CompletedTasksMappings == { EmptyData, TitleOnly }

Mappings(table) ==
    IF table = "tasks" THEN TasksMappings ELSE CompletedTasksMappings

PseudoIdArgs == (0 - 1)..(MaxRows + 1)

(***************************************************************************)
(* The state after `const db::Database db(path)` on a fresh file, and the  *)
(* engine's operations.                                                    *)
(***************************************************************************)
Result(op, table, status, pseudoId, data, columns, record, records, changes) ==
    [op |-> op, table |-> table, status |-> status, pseudoId |-> pseudoId,
     data |-> data, columns |-> columns, record |-> record,
     records |-> records, changes |-> changes]

\* the optional value of an option, and of an int option
NoValue == <<>>
Value(v) == <<v>>

\* tike::ArgParser after parse: for every option main registers and the help
\* option of the constructor, whether it has a value and which
Args(help, version, add, title, description, list, listAll, remove, complete, listCompleted, listAllCompleted) ==
    [help |-> help, version |-> version, add |-> add, title |-> title,
     description |-> description, list |-> list, listAll |-> listAll,
     remove |-> remove, complete |-> complete,
     listCompleted |-> listCompleted, listAllCompleted |-> listAllCompleted]

NoArgs ==
    Args(NoValue, NoValue, NoValue, NoValue, NoValue, NoValue, NoValue, NoValue,
         NoValue, NoValue, NoValue)

\* parser.argHasValue(name)
argHasValue(args, name) == args[name] /= NoValue

\* the process running main: where it is (pc) and the step it took last,
\* the connection `db` holds (conn), whether parse accepts the command line
\* and the values it gives the options, the local notCompletedRecord of the
\* complete branch, the exit status, and the rows of the tables when the
\* complete branch was entered
Process(pc, last, conn, valid, args, notCompletedRecord, status, before) ==
    [pc |-> pc, last |-> last, conn |-> conn, valid |-> valid, args |-> args,
     notCompletedRecord |-> notCompletedRecord, status |-> status,
     before |-> before]

NoRows == [t \in Tables |-> {}]

NoProcess == Process("none", "none", "none", FALSE, NoArgs, EmptyData, 0, NoRows)

NoParser == [args |-> <<>>, argv |-> <<>>, status |-> "none", what |-> ""]

\* no statement built
NoStatement == [op |-> "none", data |-> EmptyData, order |-> <<>>,
                columns |-> <<>>, bound |-> <<>>]

\* a 64-bit integer of the store as its two 32-bit words, two's complement:
\* the low word read as an int, and the high word
Int64(high, low) == [high |-> high, low |-> low]

NoCell == [stored |-> Int64(0, 0), decoded |-> FALSE, field |-> 0]

\* no statement prepared yet: the calls of the SQLite C API an operation made
\* on its statement, what each returned, and how the operation ended
NoLife == [op |-> "none", calls |-> <<>>, ended |-> "none"]

outsideIdle ==
    /\ proc = NoProcess /\ stepError = 0 /\ parser = NoParser
    /\ stmt = NoStatement /\ cell = NoCell /\ life = NoLife

Init ==
    /\ outsideIdle
    /\ schema = [t \in Tables |-> <<>>]
    /\ rows = [t \in Tables |-> {}]
    /\ seq = [t \in Tables |-> 0]
    /\ result = Result("open", "tasks", "ok", 0, EmptyData, <<>>, EmptyData, <<>>, 0)

\* (variant: CREATE TABLE without IF NOT EXISTS)
createTableAlways(table, columns) ==
    /\ schema[table] = <<>> => columns \in {<<>>, DeclaredColumns(table)}
    /\ IF columns = <<>>
       THEN /\ result' = Result("createTable", table, "invalid_argument", 0,
                                EmptyData, columns, EmptyData, <<>>, 0)
            /\ UNCHANGED <<schema, rows, seq>>
       ELSE IF schema[table] /= <<>>
       THEN /\ result' = Result("createTable", table, "backing_store", 0,
                                EmptyData, columns, EmptyData, <<>>, 0)
            /\ UNCHANGED <<schema, rows, seq>>
       ELSE /\ schema' = [schema EXCEPT ![table] = columns]
            /\ result' = Result("createTable", table, "ok", 0,
                                EmptyData, columns, EmptyData, <<>>, 0)
            /\ UNCHANGED <<rows, seq>>

\* (variant: no check of columns.empty(); "CREATE TABLE ... ()" does not compile)
createTableUnchecked(table, columns) ==
    /\ schema[table] = <<>> => columns \in {<<>>, DeclaredColumns(table)}
    /\ IF columns = <<>>
       THEN /\ result' = Result("createTable", table, "backing_store", 0,
                                EmptyData, columns, EmptyData, <<>>, 0)
            /\ UNCHANGED <<schema, rows, seq>>
       ELSE /\ schema' = IF schema[table] = <<>>
                         THEN [schema EXCEPT ![table] = columns]
                         ELSE schema
            /\ result' = Result("createTable", table, "ok", 0,
                                EmptyData, columns, EmptyData, <<>>, 0)
            /\ UNCHANGED <<rows, seq>>

\* db::Database::createTable.  A table that does not exist yet is declared
\* with the list main declares for it (or with the empty list); a table that
\* exists is declared again with any of the lists.
createTable(table, columns) ==
    /\ schema[table] = <<>> => columns \in {<<>>, DeclaredColumns(table)}
    /\ IF columns = <<>>
       THEN /\ result' = Result("createTable", table, "invalid_argument", 0,
                                EmptyData, columns, EmptyData, <<>>, 0)
            /\ UNCHANGED <<schema, rows, seq>>
       ELSE /\ schema' = IF schema[table] = <<>>
                         THEN [schema EXCEPT ![table] = columns]
                         ELSE schema
            /\ result' = Result("createTable", table, "ok", 0,
                                EmptyData, columns, EmptyData, <<>>, 0)
            /\ UNCHANGED <<rows, seq>>

\* db::Database::addRecord.  An insert that would take the table past MaxRows
\* rows, or the new id past MaxId, is left out of the model.
addRecord(table, data) ==
    LET columns == schema[table]
        id == InsertedId(columns, rows[table], seq[table], data)
    IN  IF \/ ~Prepares(columns, WhereClause(data))
           \/ InsertFails(rows[table], data)
        THEN /\ result' = Result("addRecord", table, "backing_store", 0,
                                 data, <<>>, EmptyData, <<>>, 0)
             /\ UNCHANGED <<schema, rows, seq>>
        ELSE /\ Cardinality(rows[table]) < MaxRows
             /\ id <= MaxId
             /\ \E now \in Timestamps :
                  rows' = [rows EXCEPT ![table] = @ \cup
                     {InsertedRow(columns, rows[table], seq[table], data, now)}]
             /\ seq' = IF AutoIncrement(columns) /\ id > seq[table]
                       THEN [seq EXCEPT ![table] = id]
                       ELSE seq
             /\ result' = Result("addRecord", table, "ok", 0,
                                 data, <<>>, EmptyData, <<>>, 1)
             /\ UNCHANGED schema

\* (variant: the result of sqlite3_step compared with SQLITE_OK, so that a
\* DELETE that ran is reported as a failure)
removeRecordStepOk(table, data) ==
    LET columns == schema[table]
        gone == MatchingRows(columns, rows[table], data)
    IN  IF ~Prepares(columns, WhereClause(data))
        THEN /\ result' = Result("removeRecord", table, "backing_store", 0,
                                 data, <<>>, EmptyData, <<>>, 0)
             /\ UNCHANGED <<schema, rows, seq>>
        ELSE /\ rows' = [rows EXCEPT ![table] = @ \ gone]
             /\ result' = Result("removeRecord", table, "backing_store", 0,
                                 data, <<>>, EmptyData, <<>>, Cardinality(gone))
             /\ UNCHANGED <<schema, seq>>

\* db::Database::removeRecord
removeRecord(table, data) ==
    LET columns == schema[table]
        gone == MatchingRows(columns, rows[table], data)
    IN  IF ~Prepares(columns, WhereClause(data))
        THEN /\ result' = Result("removeRecord", table, "backing_store", 0,
                                 data, <<>>, EmptyData, <<>>, 0)
             /\ UNCHANGED <<schema, rows, seq>>
        ELSE /\ rows' = [rows EXCEPT ![table] = @ \ gone]
             /\ result' = Result("removeRecord", table, "ok", 0,
                                 data, <<>>, EmptyData, <<>>, Cardinality(gone))
             /\ UNCHANGED <<schema, seq>>

\* db::Database::removeRecordByPseudoId
removeRecordByPseudoId(table, pseudoId) ==
    LET gone == RowsWithResolvedId(rows[table], pseudoId)
    IN  IF ~TableExists(schema[table])
        THEN /\ result' = Result("removeRecordByPseudoId", table, "backing_store",
                                 pseudoId, EmptyData, <<>>, EmptyData, <<>>, 0)
             /\ UNCHANGED <<schema, rows, seq>>
        ELSE /\ rows' = [rows EXCEPT ![table] = @ \ gone]
             /\ result' = Result("removeRecordByPseudoId", table, "ok",
                                 pseudoId, EmptyData, <<>>, EmptyData, <<>>,
                                 Cardinality(gone))
             /\ UNCHANGED <<schema, seq>>

\* db::Database::getRecord
getRecord(table, data) ==
    LET out == GetRecordOutcome(schema[table], rows[table], data)
    IN  /\ result' = Result("getRecord", table, out.status, 0, data, <<>>,
                            out.record, <<>>, 0)
        /\ UNCHANGED <<schema, rows, seq>>

\* getRecordByPseudoId running the DELETE of removeRecordByPseudoId on the
\* row it resolves
getRecordByPseudoIdDeleting(table, pseudoId) ==
    LET out == GetRecordByPseudoIdOutcome(schema[table], rows[table], pseudoId)
    IN  /\ result' = Result("getRecordByPseudoId", table, out.status, pseudoId,
                            EmptyData, <<>>, out.record, <<>>, 0)
        /\ rows' = [rows EXCEPT ![table] = @ \ RowsWithResolvedId(rows[table], pseudoId)]
        /\ UNCHANGED <<schema, seq>>

\* db::Database::getRecordByPseudoId
getRecordByPseudoId(table, pseudoId) ==
    LET out == GetRecordByPseudoIdOutcome(schema[table], rows[table], pseudoId)
    IN  /\ result' = Result("getRecordByPseudoId", table, out.status, pseudoId,
                            EmptyData, <<>>, out.record, <<>>, 0)
        /\ UNCHANGED <<schema, rows, seq>>

\* db::Database::getAllRecords
getAllRecords(table) ==
    LET out == GetAllRecordsOutcome(schema[table], rows[table])
    IN  /\ result' = Result("getAllRecords", table, out.status, 0, EmptyData,
                            <<>>, EmptyData, out.records, 0)
        /\ UNCHANGED <<schema, rows, seq>>

Next ==
    \/ \E table \in Tables, columns \in ColumnLists :
          createTable(table, columns) /\ UNCHANGED outside
    \/ \E table \in Tables : \E data \in Mappings(table) :
          addRecord(table, data) /\ UNCHANGED outside
    \/ \E table \in Tables : \E data \in Mappings(table) :
          removeRecord(table, data) /\ UNCHANGED outside
    \/ \E table \in Tables, pseudoId \in PseudoIdArgs :
          removeRecordByPseudoId(table, pseudoId) /\ UNCHANGED outside
    \/ \E table \in Tables : \E data \in Mappings(table) :
          getRecord(table, data) /\ UNCHANGED outside
    \/ \E table \in Tables, pseudoId \in PseudoIdArgs :
          getRecordByPseudoId(table, pseudoId) /\ UNCHANGED outside
    \/ \E table \in Tables :
          getAllRecords(table) /\ UNCHANGED outside

Spec == Init /\ [][Next]_vars

(***************************************************************************)
(* Properties.                                                             *)
(***************************************************************************)
\* what the last call was
Called(op) == result.op = op

\* the rows of a table, decoded, in ascending primary key
RECURSIVE AscendingById(_)
AscendingById(rs) ==
    IF rs = {} THEN <<>>
    ELSE LET last == CHOOSE r \in rs : \A o \in rs : o["id"].i <= r["id"].i
         IN  Append(AscendingById(rs \ {last}), DecodeRow(last))

\* C1: for a table of N rows, getRecordByPseudoId(table, k) with 1 <= k <= N
\* returns the record getAllRecords(table) holds at position k, the row with
\* the k-th smallest primary key; with k < 1 or k > N it reports not-found.
C1_PseudoIdIsPositionInGetAll ==
    (Called("getRecordByPseudoId") /\ TableExists(schema[result.table])) =>
        LET rs == rows[result.table]
            all == GetAllRecordsOutcome(schema[result.table], rs).records
            k == result.pseudoId
        IN  IF 1 <= k /\ k <= Cardinality(rs)
            THEN /\ result.status = "ok"
                 /\ result.record = all[k]
                 /\ Cardinality({r \in rs : r["id"].i < result.record["id"].i}) = k - 1
            ELSE result.status = "not_found"

\* C1 witness: ordinal 2 returned the row whose primary key is 3
C1_Witness ==
    /\ Called("getRecordByPseudoId")
    /\ result.status = "ok"
    /\ result.pseudoId = 2
    /\ result.record["id"] = Integer(3)

\* what getRecordByPseudoId(table, k) returns after a step, against what the
\* table held at ordinal k + 1 before it
ShiftedAfter(table, k) ==
    LET before == AscendingById(rows[table])
        after == GetRecordByPseudoIdOutcome(schema'[table], rows'[table], k)
    IN  IF 1 <= k + 1 /\ k + 1 <= Len(before)
        THEN after.status = "ok" /\ after.record = before[k + 1]
        ELSE after.status = "not_found"

\* C2 as stated: for every k, removeRecordByPseudoId(table, k) followed by
\* getRecordByPseudoId(table, k) returns the row that was at ordinal k + 1, or
\* not-found if none was there.
C2_Original ==
    [][(result'.op = "removeRecordByPseudoId" /\ result'.status = "ok")
          => ShiftedAfter(result'.table, result'.pseudoId)]_vars

\* C2 amended: for every k other than 0, removeRecordByPseudoId(table, k)
\* followed by getRecordByPseudoId(table, k) returns the row that was at
\* ordinal k + 1 before the removal, or not-found if none was there.
C2_RemoveShiftsOrdinals ==
    [][(/\ result'.op = "removeRecordByPseudoId"
        /\ result'.status = "ok"
        /\ result'.pseudoId /= 0)
          => ShiftedAfter(result'.table, result'.pseudoId)]_vars

\* C2 witness: ordinal 1 was removed and ordinal 1 resolves again, to the row
\* that followed it
C2_Witness ==
    /\ Called("removeRecordByPseudoId")
    /\ result.pseudoId = 1
    /\ result.changes = 1
    /\ GetRecordByPseudoIdOutcome(schema[result.table], rows[result.table], 1).status = "ok"

\* C3: for 1 <= k <= N, removeRecordByPseudoId(table, k) removes exactly the
\* row with the k-th smallest primary key, and leaves every other row of the
\* table and every row of every other table as it was.
C3_RemovesExactlyKthRow ==
    [][(/\ result'.op = "removeRecordByPseudoId"
        /\ TableExists(schema[result'.table])
        /\ 1 <= result'.pseudoId
        /\ result'.pseudoId <= Cardinality(rows[result'.table]))
          => LET t == result'.table
                 kth == { r \in rows[t] :
                            Cardinality({o \in rows[t] : o["id"].i < r["id"].i})
                               = result'.pseudoId - 1 }
             IN  /\ Cardinality(kth) = 1
                 /\ rows'[t] = rows[t] \ kth
                 /\ \A o \in Tables \ {t} : rows'[o] = rows[o]]_vars

\* C3 witness: ordinal 2 was removed from a table while the other table held
\* a row
C3_Witness ==
    /\ Called("removeRecordByPseudoId")
    /\ result.pseudoId = 2
    /\ result.changes = 1
    /\ rows[result.table] /= {}
    /\ \E o \in Tables \ {result.table} : rows[o] /= {}

\* C4: for an ordinal that does not resolve (k <= 0 or k > N, an empty table
\* included), removeRecordByPseudoId(table, k) completes without a failure
\* and leaves the rows as they were.
C4_UnresolvedRemoveIsSilent ==
    [][(/\ result'.op = "removeRecordByPseudoId"
        /\ TableExists(schema[result'.table])
        /\ \/ result'.pseudoId <= 0
           \/ result'.pseudoId > Cardinality(rows[result'.table]))
          => (result'.status = "ok" /\ rows' = rows)]_vars

\* C4 witness: ordinal 0 was removed from a table that holds rows
C4_Witness ==
    /\ Called("removeRecordByPseudoId")
    /\ result.status = "ok"
    /\ result.pseudoId = 0
    /\ result.changes = 0
    /\ rows[result.table] /= {}

Satisfying(table, data) ==
    AscendingById({ r \in rows[table] :
        \A key \in DOMAIN data :
            ComparesEqual(schema[table], r, key, data[key]) })

\* getRecord returned the first satisfying row, or not-found when there is none
FirstSatisfyingReturned(table, data, status, record) ==
    IF Satisfying(table, data) = <<>> THEN status = "not_found"
    ELSE status = "ok" /\ record = Satisfying(table, data)[1]

RoundTrips(table, data) ==
    LET got == GetRecordOutcome(schema[table], rows[table], data)
    IN  /\ got.status = "ok"
        /\ \A key \in DOMAIN data : got.record[key] = data[key]

\* C7 as stated: for every Record r inserted with addRecord, a subsequent
\* getRecord filtering on r's fields succeeds and returns r's value for each
\* of r's keys.
C7_Original ==
    (Called("addRecord") /\ result.status = "ok")
        => RoundTrips(result.table, result.data)

\* every field of the record is of the kind its column stores unconverted
StoredUnconverted(table, data) ==
    \A key \in DOMAIN data :
        ApplyAffinity(Affinity(ColumnNamed(schema[table], key).type), data[key])
            = data[key]

\* C7 amended: for every Record r inserted with addRecord whose fields are of
\* the kind their columns store unconverted (a Text for a TEXT column, an
\* Integer for the INTEGER id), a subsequent getRecord filtering on r's fields
\* succeeds and returns r's value for each of r's keys.  (An Integer written
\* to a TEXT column is stored, and returned, as its decimal text.)
C7_RoundTripOfStoredKinds ==
    (/\ Called("addRecord")
     /\ result.status = "ok"
     /\ StoredUnconverted(result.table, result.data))
        => RoundTrips(result.table, result.data)

\* C7 witness: a record with an id and a title was inserted next to an
\* earlier row
C7_Witness ==
    /\ Called("addRecord")
    /\ result.status = "ok"
    /\ DOMAIN result.data = {"id", "title"}
    /\ Cardinality(rows[result.table]) = 2

\* C8: createTable with a non-empty Column list on a table that exists does
\* not fail and leaves the table's rows (and its columns) as they were.
C8_CreateTableIdempotent ==
    [][(/\ result'.op = "createTable"
        /\ result'.columns /= <<>>
        /\ TableExists(schema[result'.table]))
          => (result'.status = "ok" /\ rows' = rows /\ schema' = schema)]_vars

\* C8 witness: the column list a table was created with was declared again
\* while the table held rows
C8_Witness ==
    /\ Called("createTable")
    /\ result.status = "ok"
    /\ result.columns = schema[result.table]
    /\ rows[result.table] /= {}

\* C9: createTable with an empty Column list fails with an invalid-input
\* error; no table is created and the stored data is unchanged.
C9_EmptyColumnsRejected ==
    [][(result'.op = "createTable" /\ result'.columns = <<>>)
          => /\ result'.status = "invalid_argument"
             /\ schema' = schema
             /\ rows' = rows
             /\ seq' = seq]_vars

\* C9 witness: an empty Column list was rejected for a table that does not
\* exist, and it still does not
C9_Witness ==
    /\ Called("createTable")
    /\ result.columns = <<>>
    /\ result.status = "invalid_argument"
    /\ ~TableExists(schema[result.table])

\* getAllRecords(table) on the state after a step
AllAfter(table) == GetAllRecordsOutcome(schema'[table], rows'[table]).records

AllBefore(table) == GetAllRecordsOutcome(schema[table], rows[table]).records

\* getAllRecords returned one Record per stored row, in ascending primary key
OnePerRowAscending(table, status, records) ==
    /\ status = "ok"
    /\ Len(records) = Cardinality(rows[table])
    /\ { records[p] : p \in 1..Len(records) } = { DecodeRow(r) : r \in rows[table] }
    /\ \A p \in 1..Len(records), q \in 1..Len(records) :
          p < q => records[p]["id"].i < records[q]["id"].i

\* C10 as stated, the insertion order: after a successful addRecord
\* getAllRecords returns what it returned before with the new row last.
C10_Original ==
    [][(result'.op = "addRecord" /\ result'.status = "ok")
          => /\ Len(AllAfter(result'.table)) = Len(AllBefore(result'.table)) + 1
             /\ SubSeq(AllAfter(result'.table), 1, Len(AllBefore(result'.table)))
                   = AllBefore(result'.table)]_vars

\* C10 amended: getAllRecords returns exactly one Record per row stored, in
\* ascending primary-key order, and an empty sequence, not a failure, for a
\* table without rows; that order is the insertion order for the rows whose
\* id the store assigned (a record that brings its own id is returned at the
\* place of that id).
C10_GetAllOnePerRowAscending ==
    [][/\ (result'.op = "getAllRecords" /\ TableExists(schema[result'.table]))
          => /\ OnePerRowAscending(result'.table, result'.status, result'.records)
             /\ rows[result'.table] = {} => result'.records = <<>>
       /\ (/\ result'.op = "addRecord"
           /\ result'.status = "ok"
           /\ "id" \notin DOMAIN result'.data)
          => /\ Len(AllAfter(result'.table)) = Len(AllBefore(result'.table)) + 1
             /\ SubSeq(AllAfter(result'.table), 1, Len(AllBefore(result'.table)))
                   = AllBefore(result'.table)]_vars

\* C10 witness: getAllRecords returned two Records, the second one inserted
\* with an id of the caller's
C10_Witness ==
    /\ Called("getAllRecords")
    /\ result.status = "ok"
    /\ Len(result.records) = 2
    /\ result.records[1]["id"].i + 1 < result.records[2]["id"].i

\* the row a returned record was decoded from: the one of its primary key
SourceRows(table, record) ==
    { r \in rows[table] : "id" \in DOMAIN record /\ r["id"].i = record["id"].i
                                                  /\ record["id"].kind = "int" }

\* one key per column of the table, no null kind, and the empty text where
\* the row holds NULL
KeyPerColumn(table, record) ==
    /\ DOMAIN record = ColumnNames(schema[table])
    /\ \A name \in DOMAIN record : record[name].kind \in {"int", "text"}
    /\ \E r \in SourceRows(table, record) :
           \A name \in DOMAIN r :
               r[name].kind = "null" => record[name] = Text(<<>>)

\* C11: every Record returned by getRecord, getRecordByPseudoId or
\* getAllRecords has exactly one key for every column of the row it was read
\* from, and a column that is NULL in storage comes back as the empty Text
\* Field: never a missing key, never a null kind.
C11_KeyPerColumnNullAsEmptyText ==
    /\ (result.op \in {"getRecord", "getRecordByPseudoId"} /\ result.status = "ok")
          => KeyPerColumn(result.table, result.record)
    /\ (Called("getAllRecords") /\ result.status = "ok")
          => \A p \in 1..Len(result.records) :
                 KeyPerColumn(result.table, result.records[p])

\* C11 witness: getAllRecords has returned two rows whose description is
\* NULL in storage
C11_Witness ==
    /\ Called("getAllRecords") /\ result.status = "ok"
    /\ Len(result.records) = 2
    /\ \A p \in 1..2 :
           /\ \E r \in SourceRows(result.table, result.records[p]) :
                  r["description"].kind = "null"
           /\ result.records[p]["description"] = Text(<<>>)

\* a write of the engine has just returned a failure
WriteFailed ==
    /\ result.op \in {"addRecord", "removeRecord", "removeRecordByPseudoId"}
    /\ result.status /= "ok"

\* C15: an engine operation applies fully or not at all: whenever addRecord,
\* removeRecord or removeRecordByPseudoId returns a failure (a record of zero
\* fields, an insert that violates the primary key, a statement that does not
\* compile), the rows of every table, the declared tables and the
\* AUTOINCREMENT counters are exactly what they were before the call.
C15_FailedWriteAppliesNothing ==
    [][WriteFailed' => (rows' = rows /\ schema' = schema /\ seq' = seq)]_vars

\* C15 witness: addRecord has failed on an id that a row of the table holds
C15_Witness ==
    /\ Called("addRecord") /\ result.status = "backing_store"
    /\ "id" \in DOMAIN result.data
    /\ \E r \in rows[result.table] : r["id"] = BoundId(result.data)
    /\ Cardinality(rows[result.table]) = 2

\* a read of the engine has just returned a Record, a sequence of Records,
\* or a failure
ReadEnded == result.op \in {"getRecord", "getRecordByPseudoId", "getAllRecords"}

\* C23: getRecord, getRecordByPseudoId and getAllRecords never change the
\* stored state: whatever the read returns (a Record, a sequence, possibly
\* empty, or a failure), the declared tables, the AUTOINCREMENT counters and,
\* for every table, the set of its rows and their order are after the call
\* what they were before it.
C23_ReadsChangeNothing ==
    [][ReadEnded' =>
          /\ rows' = rows /\ schema' = schema /\ seq' = seq
          /\ \A t \in Tables : TableScan(rows'[t]) = TableScan(rows[t])]_vars

\* C23 witness: getRecord has found no record in a table that holds
\* MaxRows rows
C23_Witness ==
    /\ Called("getRecord") /\ result.status = "not_found"
    /\ Cardinality(rows[result.table]) = MaxRows

(***************************************************************************)
(* main (src/src/main.cpp): one run of `tike` after another over the same  *)
(* file.  Every call of the engine is one step of the process.             *)
(***************************************************************************)
\* the branches of main in the order of its if statements
Branches ==
    << "help", "version", "add", "list", "listAll", "remove", "complete",
       "listCompleted", "listAllCompleted" >>

BranchIndex(branch) == CHOOSE j \in 1..Len(Branches) : Branches[j] = branch

\* where control goes after the branch at index `from`: the next if whose
\* option has a value, or the return at the end of main
NextBranch(args, from) ==
    LET later == { j \in (from + 1)..Len(Branches) : argHasValue(args, Branches[j]) }
    IN  IF later = {} THEN "return"
        ELSE Branches[CHOOSE j \in later : \A o \in later : j <= o]

After(args, branch) == NextBranch(args, BranchIndex(branch))

\* the ordinals given to --list, --remove, --complete and --list-completed
Ordinals == 0..(MaxRows + 1)

OneOption(name, value) == [NoArgs EXCEPT ![name] = value]

\* the command lines, as the values parse gives the options
CommandLines ==
    { OneOption("help", Value("true")), OneOption("version", Value("true")),
      OneOption("add", Value("true")),
      [NoArgs EXCEPT !["add"] = Value("true"), !["title"] = Value(<<"a">>)],
      [NoArgs EXCEPT !["add"] = Value("true"), !["title"] = Value(<<"a">>),
                     !["description"] = Value(<<"d">>)],
      OneOption("list", Value(1)), OneOption("listAll", Value("true")),
      OneOption("listCompleted", Value(1)),
      OneOption("listAllCompleted", Value("true")),
      [NoArgs EXCEPT !["remove"] = Value(1), !["complete"] = Value(1)] }
    \cup { OneOption("remove", Value(k)) : k \in 1..MaxRows }
    \cup { OneOption("complete", Value(k)) : k \in Ordinals }

\* exit(status): the process ends without leaving the scope of main, and the
\* destructor of the local `db` does not run
Exit(process, step, status) ==
    [process EXCEPT !.pc = "exited", !.last = step, !.status = status]

\* an exception leaves main: std::terminate, no destructor runs
Terminate(process, step) ==
    [process EXCEPT !.pc = "terminated", !.last = step]

Goto(process, step, pc) == [process EXCEPT !.pc = pc, !.last = step]

\* what proc.last and `result` hold before the first call of a process
NoCall == Result("open", "tasks", "ok", 0, EmptyData, <<>>, EmptyData, <<>>, 0)

\* a new process is started on a command line that parse accepts, or on one
\* it rejects; the process has called nothing yet
MainStart(valid, args) ==
    /\ proc.pc \in {"none", "exited", "returned", "terminated"}
    /\ ~valid => args = NoArgs
    /\ proc' = Process("open", "start", "none", valid, args, EmptyData, 0, NoRows)
    /\ result' = NoCall
    /\ UNCHANGED <<schema, rows, seq, besideMain>>

\* const db::Database db(path): the constructor calls openDatabase, which
\* throws when sqlite3_open fails; the exception leaves main
MainOpen(rc) ==
    /\ proc.pc = "open"
    /\ proc' = IF rc = "SQLITE_OK"
               THEN [Goto(proc, "open", "createTasks") EXCEPT !.conn = "open"]
               ELSE [Terminate(proc, "open") EXCEPT !.conn = "open"]
    /\ UNCHANGED <<schema, rows, seq, result, besideMain>>

MainCreateTasks ==
    /\ proc.pc = "createTasks"
    /\ createTable("tasks", TasksColumns)
    /\ UNCHANGED besideMain
    /\ proc' = IF result'.status = "ok"
               THEN Goto(proc, "createTasks", "createCompletedTasks")
               ELSE Terminate(proc, "createTasks")

MainCreateCompletedTasks ==
    /\ proc.pc = "createCompletedTasks"
    /\ createTable("completedTasks", CompletedTasksColumns)
    /\ UNCHANGED besideMain
    /\ proc' = IF result'.status = "ok"
               THEN Goto(proc, "createCompletedTasks", "parse")
               ELSE Terminate(proc, "createCompletedTasks")

\* parser.parse(argc, argv) inside the first try
MainParse ==
    /\ proc.pc = "parse"
    /\ proc' = IF proc.valid
               THEN Goto(proc, "parse", NextBranch(proc.args, 0))
               ELSE Exit(proc, "parse", 1)
    /\ UNCHANGED <<schema, rows, seq, result, besideMain>>

MainHelp ==
    /\ proc.pc = "help"
    /\ proc' = Exit(proc, "help", 0)
    /\ UNCHANGED <<schema, rows, seq, result, besideMain>>

MainVersion ==
    /\ proc.pc = "version"
    /\ proc' = Exit(proc, "version", 0)
    /\ UNCHANGED <<schema, rows, seq, result, besideMain>>

\* the record of the add branch: the title, and the description when given
AddData(args) ==
    IF argHasValue(args, "description")
    THEN Data2("title", Text(args["title"][1]),
               "description", Text(args["description"][1]))
    ELSE Data1("title", Text(args["title"][1]))

\* --add: without --title invalid_argument is thrown and caught
MainAdd ==
    /\ proc.pc = "add"
    /\ IF ~argHasValue(proc.args, "title")
       THEN /\ proc' = Exit(proc, "add", 1)
            /\ UNCHANGED <<schema, rows, seq, result, besideMain>>
       ELSE /\ addRecord("tasks", AddData(proc.args))
            /\ UNCHANGED besideMain
            /\ proc' = Exit(proc, "add", IF result'.status = "ok" THEN 0 ELSE 1)

\* std::get<std::string> of title, description and timeCreated
Printable(record) ==
    \A name \in {"title", "description", "timeCreated"} :
        name \in DOMAIN record /\ record[name].kind = "text"

\* --list k: the record, then every record of the table to number it
MainList ==
    /\ proc.pc = "list"
    /\ getRecordByPseudoId("tasks", proc.args["list"][1])
    /\ UNCHANGED besideMain
    /\ proc' = IF result'.status = "ok" /\ result'.record /= EmptyData
               THEN Goto(proc, "list", "listGetAll")
               ELSE Exit(proc, "list", 1)

MainListGetAll ==
    /\ proc.pc = "listGetAll"
    /\ getAllRecords("tasks")
    /\ UNCHANGED besideMain
    /\ proc' = Exit(proc, "listGetAll",
                    IF result'.status = "ok" THEN 0 ELSE 1)

\* --list-all: exit(1) on an empty table, else the rows are printed and
\* control goes on to the next if
MainListAll ==
    /\ proc.pc = "listAll"
    /\ getAllRecords("tasks")
    /\ UNCHANGED besideMain
    /\ proc' = IF /\ result'.status = "ok"
                  /\ result'.records /= <<>>
                  /\ \A p \in 1..Len(result'.records) : Printable(result'.records[p])
               THEN Goto(proc, "listAll", After(proc.args, "listAll"))
               ELSE Exit(proc, "listAll", 1)

\* --list-all-completed, the last if of main
MainListAllCompleted ==
    /\ proc.pc = "listAllCompleted"
    /\ getAllRecords("completedTasks")
    /\ UNCHANGED besideMain
    /\ proc' = IF /\ result'.status = "ok"
                  /\ result'.records /= <<>>
                  /\ \A p \in 1..Len(result'.records) : Printable(result'.records[p])
               THEN Goto(proc, "listAllCompleted", "return")
               ELSE Exit(proc, "listAllCompleted", 1)

\* --remove k
MainRemove ==
    /\ proc.pc = "remove"
    /\ removeRecordByPseudoId("tasks", proc.args["remove"][1])
    /\ UNCHANGED besideMain
    /\ proc' = IF result'.status = "ok"
               THEN Goto(proc, "remove", After(proc.args, "remove"))
               ELSE Exit(proc, "remove", 1)

\* --complete k, first call: notCompletedRecord = getRecordByPseudoId
\* (variant: the branch going from the first call straight to removeRecord)
MainCompleteWithoutAdd ==
    /\ proc.pc = "complete"
    /\ getRecordByPseudoId("tasks", proc.args["complete"][1])
    /\ UNCHANGED besideMain
    /\ proc' = IF result'.status = "ok"
               THEN [Goto(proc, "complete", "completeRemove")
                        EXCEPT !.notCompletedRecord = result'.record,
                               !.before = rows]
               ELSE [Exit(proc, "complete", 1) EXCEPT !.before = rows]

MainComplete ==
    /\ proc.pc = "complete"
    /\ getRecordByPseudoId("tasks", proc.args["complete"][1])
    /\ UNCHANGED besideMain
    /\ proc' = IF result'.status = "ok"
               THEN [Goto(proc, "complete", "completeAdd")
                        EXCEPT !.notCompletedRecord = result'.record,
                               !.before = rows]
               ELSE [Exit(proc, "complete", 1) EXCEPT !.before = rows]

\* completedData: title, description and timeCreated of notCompletedRecord
CompletedData(record) ==
    [name \in {"title", "description", "timeCreated"} |-> record[name]]

\* --complete k, second call: addRecord(completedRecord)
MainCompleteAdd ==
    /\ proc.pc = "completeAdd"
    /\ addRecord("completedTasks", CompletedData(proc.notCompletedRecord))
    /\ UNCHANGED besideMain
    /\ proc' = IF result'.status = "ok"
               THEN Goto(proc, "completeAdd", "completeRemove")
               ELSE Exit(proc, "completeAdd", 1)

\* --complete k, third call: removeRecord("tasks", notCompletedRecord.data)
MainCompleteRemove ==
    /\ proc.pc = "completeRemove"
    /\ removeRecord("tasks", proc.notCompletedRecord)
    /\ UNCHANGED besideMain
    /\ proc' = IF result'.status = "ok"
               THEN Goto(proc, "completeRemove", After(proc.args, "complete"))
               ELSE Exit(proc, "completeRemove", 1)

\* --list-completed k
MainListCompleted ==
    /\ proc.pc = "listCompleted"
    /\ getRecordByPseudoId("completedTasks", proc.args["listCompleted"][1])
    /\ UNCHANGED besideMain
    /\ proc' = Exit(proc, "listCompleted",
                    IF result'.status = "ok" /\ Printable(result'.record)
                    THEN 0 ELSE 1)

\* return 0: `db` goes out of scope, ~Database calls closeDatabase
MainReturn ==
    /\ proc.pc = "return"
    /\ proc' = [Goto(proc, "return", "returned") EXCEPT !.conn = "closed"]
    /\ UNCHANGED <<schema, rows, seq, result, besideMain>>

\* the process is killed, or the machine stops, between two calls of the
\* engine: nothing more is executed; SQLite leaves no statement half applied
MainCrash ==
    /\ proc.pc \notin {"none", "exited", "returned", "terminated"}
    /\ proc' = Terminate(proc, "crash")
    /\ UNCHANGED <<schema, rows, seq, result, besideMain>>

MainInit ==
    /\ outsideIdle
    /\ schema = [t \in Tables |-> <<>>]
    /\ rows = NoRows
    /\ seq = [t \in Tables |-> 0]
    /\ result = NoCall

MainNext ==
    \/ \E valid \in BOOLEAN, args \in CommandLines : MainStart(valid, args)
    \/ \E rc \in {"SQLITE_OK", "SQLITE_CANTOPEN"} : MainOpen(rc)
    \/ MainCreateTasks
    \/ MainCreateCompletedTasks
    \/ MainParse
    \/ MainHelp
    \/ MainVersion
    \/ MainAdd
    \/ MainList
    \/ MainListGetAll
    \/ MainListAll
    \/ MainRemove
    \/ MainComplete
    \/ MainCompleteAdd
    \/ MainCompleteRemove
    \/ MainListCompleted
    \/ MainListAllCompleted
    \/ MainReturn
    \/ MainCrash

SpecMain == MainInit /\ [][MainNext]_vars

(***************************************************************************)
(* Properties of main.                                                     *)
(***************************************************************************)
\* the process has ended
Ended == proc.pc \in {"exited", "returned", "terminated"}

\* C12: the connection opened when the Database is constructed is released
\* on every exit path: once the process has ended, by a failed construction,
\* a failed operation, exit or the return of main, the connection it opened
\* has been closed.
C12_ConnectionReleasedOnEveryExit ==
    Ended => proc.conn \in {"none", "closed"}

\* --complete k has run to completion: its third call has returned
Completed == proc.last = "completeRemove" /\ result.status = "ok"

\* the rows of completedTasks that were not there when the branch was entered
AddedToCompleted == rows["completedTasks"] \ proc.before["completedTasks"]

\* the row carries the title, description and timeCreated of the record
Carries(row, record) ==
    \A name \in {"title", "description", "timeCreated"} :
        DecodeColumn(row[name]) = record[name]

\* C17: when --complete k runs to completion with 1 <= k <= N the task at
\* ordinal k is moved: it is no longer in tasks, which holds N - 1 rows, and
\* completedTasks holds exactly one more row, which carries its title,
\* description and timeCreated; for every task --add can create, the ones
\* added with a title only included.
C17_CompleteMovesTask ==
    Completed =>
        /\ \A r \in rows["tasks"] : r["id"].i /= proc.notCompletedRecord["id"].i
        /\ Cardinality(rows["tasks"]) = Cardinality(proc.before["tasks"]) - 1
        /\ proc.before["completedTasks"] \subseteq rows["completedTasks"]
        /\ Cardinality(AddedToCompleted) = 1
        /\ \A r \in AddedToCompleted : Carries(r, proc.notCompletedRecord)

\* the first call of --complete k has returned, and k is not the ordinal of
\* a row of tasks
UnresolvedComplete ==
    /\ proc.last = "complete"
    /\ proc.args["complete"][1] \notin 1..Cardinality(proc.before["tasks"])

\* C20: when --complete k is given an ordinal that does not resolve (k < 1 or
\* k > N) the first call fails with not-found and the process exits with
\* status 1 before any write: tasks and completedTasks hold the rows they
\* held when the branch was entered.
C20_UnresolvedCompleteWritesNothing ==
    UnresolvedComplete =>
        /\ result.status = "not_found"
        /\ proc.pc = "exited" /\ proc.status = 1
        /\ rows = proc.before

\* C20 witness: --complete 3 has failed on a table of two tasks
C20_Witness ==
    /\ UnresolvedComplete
    /\ Cardinality(proc.before["tasks"]) = 2
    /\ proc.args["complete"][1] = 3
    /\ proc.pc = "exited"

\* the complete branch has read the task it is to move
Completing == proc.notCompletedRecord /= EmptyData

\* the task is a row of tasks, as it was read
StillInTasks ==
    \E r \in rows["tasks"] : DecodeRow(r) = proc.notCompletedRecord

\* a row inserted by the branch into completedTasks carries the task
CopiedToCompleted ==
    \E r \in AddedToCompleted : Carries(r, proc.notCompletedRecord)

\* C21: in the complete flow the insert into completedTasks happens before
\* the delete from tasks: in every state from the moment the task is read,
\* a crash or a failure between the two calls included, the task is in tasks
\* or its copy is in completedTasks (it can be in both, it is never lost),
\* and no step takes it out of tasks unless the copy is there.
C21_TaskNeverLost ==
    Completing => (StillInTasks \/ CopiedToCompleted)

\* C21 witness: the process crashed between the insert and the delete of a
\* task that has a description, which is now in both tables
C21_Witness ==
    /\ Completing
    /\ proc.pc = "terminated" /\ proc.last = "crash"
    /\ proc.notCompletedRecord["description"] /= Text(<<>>)
    /\ StillInTasks /\ CopiedToCompleted

(***************************************************************************)
(* The reads of the engine when sqlite3_step can report an error: a busy   *)
(* or corrupt file, a failed read.  stepError is the call of sqlite3_step, *)
(* counted from 1 within the operation, that returns the error.            *)
(***************************************************************************)
\* what the p-th call of sqlite3_step returns on a statement whose result
\* is `scan`
StepResult(scan, p, errorAt) ==
    IF p = errorAt THEN "SQLITE_ERROR"
    ELSE IF p <= Len(scan) THEN "SQLITE_ROW"
    ELSE "SQLITE_DONE"

\* while (sqlite3_step(stmt) == SQLITE_ROW) { ... records.emplace_back }
RECURSIVE SteppedRows(_, _, _)
SteppedRows(scan, p, errorAt) ==
    IF StepResult(scan, p, errorAt) = "SQLITE_ROW"
    THEN <<scan[p]>> \o SteppedRows(scan, p + 1, errorAt)
    ELSE <<>>

GetAllRecordsStepOutcome(columns, rs, errorAt) ==
    IF ~TableExists(columns) THEN Outcome("backing_store", EmptyData, <<>>)
    ELSE Outcome("ok", EmptyData, DecodeRows(SteppedRows(TableScan(rs), 1, errorAt)))

\* if (sqlite3_step(stmt) == SQLITE_ROW) { decode } else { throw not found }
FirstStepOutcome(found, errorAt) ==
    IF StepResult(found, 1, errorAt) = "SQLITE_ROW"
    THEN Outcome("ok", DecodeRow(found[1]), <<>>)
    ELSE Outcome("not_found", EmptyData, <<>>)

GetRecordByPseudoIdStepOutcome(columns, rs, pseudoId, errorAt) ==
    IF ~TableExists(columns) THEN Outcome("backing_store", EmptyData, <<>>)
    ELSE FirstStepOutcome(TableScan(RowsWithResolvedId(rs, pseudoId)), errorAt)

GetRecordStepOutcome(columns, rs, data, errorAt) ==
    IF ~Prepares(columns, WhereClause(data))
    THEN Outcome("backing_store", EmptyData, <<>>)
    ELSE FirstStepOutcome(TableScan(MatchingRows(columns, rs, data)), errorAt)

\* the calls of sqlite3_step at which an error can strike a statement over
\* a table of these rows: none (0), one of the rows, or the call after the
\* last row.  A statement that does not compile is never stepped.
StepErrors(rs) == 0..(Cardinality(rs) + 1)

\* db::Database::getAllRecords, the store reporting an error at step errorAt
getAllRecordsStepping(table, errorAt) ==
    LET out == GetAllRecordsStepOutcome(schema[table], rows[table], errorAt)
    IN  /\ ~TableExists(schema[table]) => errorAt = 0
        /\ result' = Result("getAllRecords", table, out.status, 0, EmptyData,
                            <<>>, EmptyData, out.records, 0)
        /\ stepError' = errorAt
        /\ UNCHANGED <<schema, rows, seq, besideStep>>

\* db::Database::getRecordByPseudoId, the store reporting an error at its
\* one call of sqlite3_step or not
getRecordByPseudoIdStepping(table, pseudoId, errorAt) ==
    LET out == GetRecordByPseudoIdStepOutcome(schema[table], rows[table],
                                              pseudoId, errorAt)
    IN  /\ ~TableExists(schema[table]) => errorAt = 0
        /\ result' = Result("getRecordByPseudoId", table, out.status, pseudoId,
                            EmptyData, <<>>, out.record, <<>>, 0)
        /\ stepError' = errorAt
        /\ UNCHANGED <<schema, rows, seq, besideStep>>

\* db::Database::getRecord, likewise
getRecordStepping(table, data, errorAt) ==
    LET out == GetRecordStepOutcome(schema[table], rows[table], data, errorAt)
    IN  /\ ~Prepares(schema[table], WhereClause(data)) => errorAt = 0
        /\ result' = Result("getRecord", table, out.status, 0, data, <<>>,
                            out.record, <<>>, 0)
        /\ stepError' = errorAt
        /\ UNCHANGED <<schema, rows, seq, besideStep>>

\* the file is filled by createTable and addRecord, as main does
StepNext ==
    \/ \E table \in Tables :
          createTable(table, DeclaredColumns(table)) /\ UNCHANGED outside
    \/ \E table \in Tables : \E data \in Mappings(table) :
          addRecord(table, data) /\ UNCHANGED outside
    \/ \E table \in Tables : \E errorAt \in StepErrors(rows[table]) :
          getAllRecordsStepping(table, errorAt)
    \/ \E table \in Tables, pseudoId \in PseudoIdArgs, errorAt \in 0..1 :
          getRecordByPseudoIdStepping(table, pseudoId, errorAt)
    \/ \E table \in Tables : \E data \in Mappings(table), errorAt \in 0..1 :
          getRecordStepping(table, data, errorAt)

SpecStep == Init /\ [][StepNext]_vars

\* C13: when the store reports an error while getAllRecords steps through
\* the rows, getAllRecords fails with a backing-store error; it never returns
\* the rows read so far as a success.
C13_StepErrorFailsGetAll ==
    (Called("getAllRecords") /\ stepError /= 0)
        => result.status = "backing_store"

\* C14: getRecord and getRecordByPseudoId report not-found only when zero
\* rows matched; when a step of the statement fails with a backing-store
\* error the failure surfaced is a backing-store error, not not-found.
C14_StepErrorIsNotNotFound ==
    (result.op \in {"getRecord", "getRecordByPseudoId"} /\ stepError /= 0)
        => result.status = "backing_store"

(***************************************************************************)
(* tike::ArgParser::parse (src/src/ArgParser.cpp).  A token, a name and a  *)
(* value are sequences of characters; argv holds argv[1] .. argv[argc-1].  *)
(***************************************************************************)
\* most tokens on a command line
MaxArgs == 4

\* tike::Arg
Arg(name, shortName, type, required) ==
    [name |-> name, shortName |-> shortName, type |-> type,
     required |-> required, value |-> NoValue]

\* the help option of the constructor and three of the options main
\* registers: a flag, a string, and an int without a short name
MainArgs ==
    << Arg(<<"h", "e", "l", "p">>, Value(<<"h">>), "flag", FALSE),
       Arg(<<"a", "d", "d">>, Value(<<"a">>), "flag", FALSE),
       Arg(<<"t", "i", "t", "l", "e">>, Value(<<"t">>), "string", FALSE),
       Arg(<<"l", "i", "s", "t", "-", "c", "o", "m", "p", "l", "e", "t", "e", "d">>, NoValue, "int", FALSE) >>

\* the same options, the title required
RequiredArgs == [MainArgs EXCEPT ![3].required = TRUE]

Registrations == {MainArgs, RequiredArgs}

\* the tokens of the command lines: options in long and short form, of each
\* type, a bare "--", a bare "-", a name that is not registered, a word
Tokens ==
    { <<"-", "-", "a", "d", "d">>, <<"-", "a">>, <<"-", "-", "t", "i", "t", "l", "e">>, <<"-", "t">>, <<"-", "-", "l", "i", "s", "t", "-", "c", "o", "m", "p", "l", "e", "t", "e", "d">>,
      <<"-", "-">>, <<"-">>, <<"-", "-", "b", "o", "g", "u", "s">>, <<"x">> }

RECURSIVE CommandLinesOf(_)
CommandLinesOf(n) ==
    IF n = 0 THEN { <<>> }
    ELSE LET shorter == CommandLinesOf(n - 1)
         IN  shorter \cup { Append(line, token) : line \in shorter, token \in Tokens }

\* currentArg[i] == '-', the index from 0 as in the code; past the end of a
\* std::string operator[] gives '\0'
CharIsDash(currentArg, i) == i + 1 <= Len(currentArg) /\ currentArg[i + 1] = "-"

\* currentArg.substr(pos)
substr(currentArg, pos) == SubSeq(currentArg, pos + 1, Len(currentArg))

\* for (auto &arg: args) if (arg.name == longName) ... break: the index of
\* the first Arg of that long or short name, 0 when there is none
FirstMatching(args, long, name) ==
    LET matching == { j \in 1..Len(args) :
                        IF long THEN args[j].name = name
                        ELSE args[j].shortName = Value(name) }
    IN  IF matching = {} THEN 0
        ELSE CHOOSE j \in matching : \A o \in matching : j <= o

\* (variant: the value read from argv[index], the option itself)
TakenValueCurrent(argv, index) == argv[index]

\* arg.value = argv[++index]
TakenValue(argv, index) == argv[index + 1]

Thrown(args, what) == [status |-> "invalid_argument", what |-> what, args |-> args]

\* the loop over the tokens from argv[index] on, then the loop over the
\* required arguments
RECURSIVE ParseFrom(_, _, _)
ParseFrom(args, argv, index) ==
    IF index > Len(argv)
    THEN IF \E j \in 1..Len(args) : args[j].required /\ args[j].value = NoValue
         THEN Thrown(args, "Missing required argument")
         ELSE [status |-> "ok", what |-> "", args |-> args]
    ELSE LET currentArg == argv[index]
         IN  IF ~CharIsDash(currentArg, 0)
             THEN Thrown(args, "Unexpected positional argument")
             ELSE IF currentArg = <<"-", "-">>
             THEN Thrown(args, "Unexpected -- without argument")
             ELSE LET long == CharIsDash(currentArg, 1)
                      name == substr(currentArg, IF long THEN 2 ELSE 1)
                      j == FirstMatching(args, long, name)
                  IN  IF j = 0 THEN Thrown(args, "Unknown argument")
                      ELSE IF args[j].type = "flag"
                      THEN ParseFrom([args EXCEPT ![j].value = Value(<<"t", "r", "u", "e">>)],
                                     argv, index + 1)
                      ELSE IF index + 1 <= Len(argv)
                      THEN ParseFrom([args EXCEPT ![j].value =
                                                Value(TakenValue(argv, index))],
                                     argv, index + 2)
                      ELSE Thrown(args, "Missing value for argument")

\* tike::ArgParser::parse on a parser that has parsed nothing yet
parse ==
    /\ parser.status = "new"
    /\ LET out == ParseFrom(parser.args, parser.argv, 1)
       IN  parser' = [args |-> out.args, argv |-> parser.argv,
                      status |-> out.status, what |-> out.what]
    /\ UNCHANGED <<schema, rows, seq, result, proc, stepError, stmt, cell, life>>

\* a parser after addArg, and the command line it will be given
ParseInit ==
    /\ schema = [t \in Tables |-> <<>>]
    /\ rows = NoRows
    /\ seq = [t \in Tables |-> 0]
    /\ result = NoCall
    /\ proc = NoProcess
    /\ stepError = 0
    /\ stmt = NoStatement
    /\ cell = NoCell
    /\ life = NoLife
    /\ \E args \in Registrations, argv \in CommandLinesOf(MaxArgs) :
          parser = [args |-> args, argv |-> argv, status |-> "new", what |-> ""]

ParseNext == parse

SpecParse == ParseInit /\ [][ParseNext]_vars

\* the registered option a token names, in its long form "--name" or its
\* short form "-shortName": the index of the first such Arg, 0 when none
Denoted(args, token) ==
    LET naming == { j \in 1..Len(args) :
                      \/ token = <<"-", "-">> \o args[j].name
                      \/ /\ args[j].shortName /= NoValue
                         /\ token = <<"-">> \o args[j].shortName[1] }
    IN  IF naming = {} THEN 0
        ELSE CHOOSE j \in naming : \A o \in naming : j <= o

TakesValue(args, token) ==
    Denoted(args, token) /= 0 /\ args[Denoted(args, token)].type /= "flag"

\* the positions of argv read as options when the tokens are taken left to
\* right, the token after a non-flag option being its value
RECURSIVE OptionPositions(_, _, _)
OptionPositions(args, argv, p) ==
    IF p > Len(argv) THEN {}
    ELSE {p} \cup OptionPositions(args, argv,
                                  IF TakesValue(args, argv[p]) THEN p + 2 ELSE p + 1)

\* a positional token, a bare "--", an unrecognized option, or a non-flag
\* option that is the last token
Offending(args, argv, p) ==
    \/ argv[p] = <<>> \/ argv[p][1] /= "-"
    \/ argv[p] = <<"-", "-">>
    \/ Denoted(args, argv[p]) = 0
    \/ TakesValue(args, argv[p]) /\ p = Len(argv)

\* where option j appeared
Occurrences(args, argv, j) ==
    { p \in OptionPositions(args, argv, 1) : Denoted(args, argv[p]) = j }

\* C16: parse takes the tokens left to right and throws invalid_argument for
\* an unrecognized option, a bare "--", a positional token, a non-flag option
\* that is the last token, and when a required argument has no value after
\* the last token; when it returns normally every flag option that appeared
\* has the value "true" and every non-flag option that appeared holds the
\* token that followed its last occurrence.
C16_ParseThrowsOrAssigns ==
    parser.status \notin {"none", "new"} =>
        LET args == parser.args
            argv == parser.argv
            positions == OptionPositions(args, argv, 1)
        IN  /\ parser.status \in {"ok", "invalid_argument"}
            /\ (\E p \in positions : Offending(args, argv, p))
                  => parser.status = "invalid_argument"
            /\ (\E j \in 1..Len(args) :
                    args[j].required /\ Occurrences(args, argv, j) = {})
                  => parser.status = "invalid_argument"
            /\ parser.status = "ok" =>
                  \A j \in 1..Len(args) :
                      LET seen == Occurrences(args, argv, j)
                      IN  seen /= {} =>
                            IF args[j].type = "flag"
                            THEN args[j].value = Value(<<"t", "r", "u", "e">>)
                            ELSE args[j].value = Value(argv[MaxOf(seen) + 1])

\* C16 witness: parse has returned normally from a command line on which a
\* non-flag option appeared twice, followed by different tokens
C16_Witness ==
    /\ parser.status = "ok"
    /\ \E k \in 1..Len(parser.args) :
          /\ parser.args[k].type /= "flag"
          /\ \E p, q \in Occurrences(parser.args, parser.argv, k) :
                p < q /\ parser.argv[p + 1] /= parser.argv[q + 1]

(***************************************************************************)
(* The statement of addRecord, removeRecord and getRecord: the column      *)
(* names written into the text by a first loop over the mapping, and the   *)
(* Fields bound to the placeholders by a second loop.  A std::unordered_map*)
(* that is not modified yields its elements in one order, whichever it is. *)
(***************************************************************************)
BindKeys == {"id", "title", "description"}

BindFields == { Integer(1), Text(<<"a">>) }

\* the mappings a statement is built from
BindMappings == UNION { [keys -> BindFields] : keys \in SUBSET BindKeys }

\* the orders in which a mapping can yield its keys
IterationOrders(data) ==
    { order \in [1..Cardinality(DOMAIN data) -> DOMAIN data] :
        \A i, j \in DOMAIN order : i /= j => order[i] /= order[j] }

\* for (const auto &key: data | std::views::keys): the names written into
\* the text, the i-th before the i-th placeholder
ColumnsWritten(data, order) == [i \in 1..Len(order) |-> order[i]]

\* (variant: the second loop running over the mapping from its other end)
FieldsBoundBackwards(data, order) ==
    [i \in 1..Len(order) |-> data[order[Len(order) + 1 - i]]]

\* int index = 1; for (const auto &[key, value]: data) { bind(index); ++index; }
FieldsBound(data, order) == [i \in 1..Len(order) |-> data[order[i]]]

\* the text is written and the Fields are bound, by any of the three
bindStatement(op) ==
    /\ stmt.op = "none"
    /\ stmt' = [stmt EXCEPT !.op = op,
                            !.columns = ColumnsWritten(stmt.data, stmt.order),
                            !.bound = FieldsBound(stmt.data, stmt.order)]
    /\ UNCHANGED <<schema, rows, seq, result, proc, stepError, parser, cell, life>>

\* a mapping handed to the engine
BindInit ==
    /\ schema = [t \in Tables |-> <<>>]
    /\ rows = NoRows
    /\ seq = [t \in Tables |-> 0]
    /\ result = NoCall
    /\ proc = NoProcess
    /\ stepError = 0
    /\ parser = NoParser
    /\ cell = NoCell
    /\ life = NoLife
    /\ \E data \in BindMappings : \E order \in IterationOrders(data) :
          stmt = [NoStatement EXCEPT !.data = data, !.order = order]

BindNext == \E op \in {"addRecord", "removeRecord", "getRecord"} : bindStatement(op)

SpecBind == BindInit /\ [][BindNext]_vars

IntMax == 2147483647

IntMin == (0 - IntMax) - 1

\* how far past IntMax the ids of the model go
MaxBeyond == 2

\* the ids addRecord binds with sqlite3_bind_int in the model
MaxBoundId == 60

BoundIds == (0..MaxBoundId) \cup {IntMax - 1, IntMax}

\* sqlite3_bind_int: the int, sign-extended to 64 bits
Widen(n) == Int64(IF n < 0 THEN 0 - 1 ELSE 0, n)

\* the rowid after the largest one: 64-bit addition of 1, the carry of the
\* low word going to the high word
Successor(v) ==
    IF v.low = IntMax THEN Int64(v.high, IntMin)
    ELSE IF v.low = 0 - 1 THEN Int64(v.high + 1, 0)
    ELSE Int64(v.high, v.low + 1)

\* sqlite3_column_int: the low 32 bits of the value, as an int
ColumnInt32(v) == v.low

\* addRecord with the id bound: the row holds the int
addRecordBoundId(n) ==
    /\ cell = NoCell
    /\ n > 0
    /\ cell' = [stored |-> Widen(n), decoded |-> FALSE, field |-> 0]
    /\ UNCHANGED <<schema, rows, seq, result, proc, stepError, parser, stmt, life>>

\* addRecord without id: the row gets the rowid after the largest.  The ids
\* of the model stay within MaxBoundId, or within MaxBeyond of IntMax.
addRecordNextId ==
    /\ cell /= NoCell
    /\ cell.stored.high = 0
    /\ \/ cell.stored.low \in 0..(MaxBoundId - 1)
       \/ cell.stored.low >= IntMax - 1
       \/ cell.stored.low < IntMin + MaxBeyond
    /\ cell' = [stored |-> Successor(cell.stored), decoded |-> FALSE, field |-> 0]
    /\ UNCHANGED <<schema, rows, seq, result, proc, stepError, parser, stmt, life>>

\* case SQLITE_INTEGER: recordData[columnName] = sqlite3_column_int(stmt, i)
decodeInteger ==
    /\ cell /= NoCell
    /\ cell' = [cell EXCEPT !.decoded = TRUE, !.field = ColumnInt32(cell.stored)]
    /\ UNCHANGED <<schema, rows, seq, result, proc, stepError, parser, stmt, life>>

DecodeNext ==
    \/ \E n \in BoundIds : addRecordBoundId(n)
    \/ addRecordNextId
    \/ decodeInteger

SpecDecode == Init /\ [][DecodeNext]_vars

\* C19: for every integer the store holds in a column, anywhere in the
\* 64-bit signed range, the decoded Field is an Integer equal to it.
C19_DecodedIntegerEqualsStored ==
    cell.decoded => Widen(cell.field) = cell.stored

(***************************************************************************)
(* The life of the sqlite3_stmt of an operation: the calls of the SQLite C *)
(* API the operation makes on its statement, in the order of the code, for *)
(* every return code the store can give.                                   *)
(***************************************************************************)

\* the rows a statement yields at most, and the columns of a row at most
MaxStepRows == 2
MaxColumns == 2

\* the fields of a RecordData at most
MaxFields == 2

Call(fn, rc) == [fn |-> fn, rc |-> rc]

Life(op, calls, ended) == [op |-> op, calls |-> calls, ended |-> ended]

\* sqlite3_column_type of a column; the switch of the reads has a case for
\* INTEGER, FLOAT, TEXT and NULL, and a default for the rest.  INTEGER and
\* FLOAT make the calls TEXT makes.
ColumnTypes == {"SQLITE_TEXT", "SQLITE_NULL", "SQLITE_BLOB"}

SupportedTypes == {"SQLITE_INTEGER", "SQLITE_FLOAT", "SQLITE_TEXT", "SQLITE_NULL"}

\* the rows a SELECT can yield, each as the types of its columns
RowTypes == UNION {[1..n -> ColumnTypes] : n \in 1..MaxColumns}

ResultTypes == UNION {[1..n -> RowTypes] : n \in 0..MaxStepRows}

PrepareCodes == {"SQLITE_OK", "SQLITE_ERROR"}

BindCodes == {"SQLITE_OK", "SQLITE_ERROR"}

StepCodes == {"SQLITE_ROW", "SQLITE_DONE", "SQLITE_ERROR"}

Prepare(rc) == Call("sqlite3_prepare_v2", rc)

Step(rc) == Call("sqlite3_step", rc)

Finalize == Call("sqlite3_finalize", "SQLITE_OK")

\* the loop over data binding one parameter a field; the code does not look
\* at what sqlite3_bind_* returns
BindLoop(n) == [i \in 1..n |-> Call("sqlite3_bind", "SQLITE_OK")]

\* the first column of a row whose type the switch has no case for, 0 if none
FirstUnsupported(types) ==
    LET bad == {i \in 1..Len(types) : types[i] \notin SupportedTypes}
    IN  IF bad = {} THEN 0 ELSE CHOOSE i \in bad : \A j \in bad : i <= j

\* the default case of the switch without its sqlite3_finalize
ColumnLoopKeepingOpen(types) ==
    LET k == FirstUnsupported(types)
    IN  [i \in 1..(IF k = 0 THEN Len(types) ELSE k) |-> Call("sqlite3_column_type", types[i])]

\* the loop over the columns of the current row: one case a column, and the
\* default case finalizes and throws
ColumnLoop(types) ==
    LET k == FirstUnsupported(types)
    IN  IF k = 0
        THEN [i \in 1..Len(types) |-> Call("sqlite3_column_type", types[i])]
        ELSE [i \in 1..k |-> Call("sqlite3_column_type", types[i])] \o <<Finalize>>

\* the statement of a write from its compilation on: addRecord and
\* removeRecord bind a parameter a field, createTable none
WriteLife(op, fields, prepareRc, stepRc) ==
    IF prepareRc /= "SQLITE_OK"
    THEN Life(op, <<Prepare(prepareRc)>>, "threw")
    ELSE Life(op, <<Prepare(prepareRc)>> \o BindLoop(fields) \o <<Step(stepRc), Finalize>>,
              IF stepRc /= "SQLITE_DONE" THEN "threw" ELSE "returned")

\* the statement of a read of one record after its parameters are bound
FetchOne(op, bound, stepRc, types) ==
    IF stepRc = "SQLITE_ROW"
    THEN IF FirstUnsupported(types) /= 0
         THEN Life(op, bound \o <<Step(stepRc)>> \o ColumnLoop(types), "threw")
         ELSE Life(op, bound \o <<Step(stepRc)>> \o ColumnLoop(types) \o <<Finalize>>, "returned")
    ELSE Life(op, bound \o <<Step(stepRc), Finalize>>, "threw")

\* while (sqlite3_step(stmt) == SQLITE_ROW): the calls from the row after
\* `done` on; lastRc is what sqlite3_step returns after the last row
RECURSIVE StepLoop(_, _, _)
StepLoop(types, done, lastRc) ==
    IF done = Len(types)
    THEN [calls |-> <<Step(lastRc), Finalize>>, ended |-> "returned"]
    ELSE LET row == types[done + 1]
             rest == StepLoop(types, done + 1, lastRc)
         IN  IF FirstUnsupported(row) /= 0
             THEN [calls |-> <<Step("SQLITE_ROW")>> \o ColumnLoop(row), ended |-> "threw"]
             ELSE [calls |-> <<Step("SQLITE_ROW")>> \o ColumnLoop(row) \o rest.calls,
                   ended |-> rest.ended]

createTableStatement(columnsEmpty, prepareRc, stepRc) ==
    /\ life' = IF columnsEmpty
               THEN Life("createTable", <<>>, "threw")
               ELSE WriteLife("createTable", 0, prepareRc, stepRc)
    /\ UNCHANGED <<schema, rows, seq, result, proc, stepError, parser, stmt, cell>>

addRecordStatement(fields, prepareRc, stepRc) ==
    /\ life' = WriteLife("addRecord", fields, prepareRc, stepRc)
    /\ UNCHANGED <<schema, rows, seq, result, proc, stepError, parser, stmt, cell>>

removeRecordStatement(fields, prepareRc, stepRc) ==
    /\ life' = WriteLife("removeRecord", fields, prepareRc, stepRc)
    /\ UNCHANGED <<schema, rows, seq, result, proc, stepError, parser, stmt, cell>>

removeRecordByPseudoIdStatement(prepareRc, bindRc, stepRc) ==
    /\ life' = IF prepareRc /= "SQLITE_OK"
               THEN Life("removeRecordByPseudoId", <<Prepare(prepareRc)>>, "threw")
               ELSE IF bindRc /= "SQLITE_OK"
               THEN Life("removeRecordByPseudoId",
                         <<Prepare(prepareRc), Call("sqlite3_bind_int", bindRc), Finalize>>, "threw")
               ELSE Life("removeRecordByPseudoId",
                         <<Prepare(prepareRc), Call("sqlite3_bind_int", bindRc),
                           Step(stepRc), Finalize>>,
                         IF stepRc /= "SQLITE_DONE" THEN "threw" ELSE "returned")
    /\ UNCHANGED <<schema, rows, seq, result, proc, stepError, parser, stmt, cell>>

getRecordStatement(fields, prepareRc, stepRc, types) ==
    /\ life' = IF prepareRc /= "SQLITE_OK"
               THEN Life("getRecord", <<Prepare(prepareRc)>>, "threw")
               ELSE FetchOne("getRecord", <<Prepare(prepareRc)>> \o BindLoop(fields),
                             stepRc, types)
    /\ UNCHANGED <<schema, rows, seq, result, proc, stepError, parser, stmt, cell>>

getRecordByPseudoIdStatement(prepareRc, bindRc, stepRc, types) ==
    /\ life' = IF prepareRc /= "SQLITE_OK"
               THEN Life("getRecordByPseudoId", <<Prepare(prepareRc)>>, "threw")
               ELSE IF bindRc /= "SQLITE_OK"
               THEN Life("getRecordByPseudoId",
                         <<Prepare(prepareRc), Call("sqlite3_bind_int", bindRc), Finalize>>, "threw")
               ELSE FetchOne("getRecordByPseudoId",
                             <<Prepare(prepareRc), Call("sqlite3_bind_int", bindRc)>>,
                             stepRc, types)
    /\ UNCHANGED <<schema, rows, seq, result, proc, stepError, parser, stmt, cell>>

getAllRecordsStatement(prepareRc, types, lastRc) ==
    /\ life' = IF prepareRc /= "SQLITE_OK"
               THEN Life("getAllRecords", <<Prepare(prepareRc)>>, "threw")
               ELSE LET loop == StepLoop(types, 0, lastRc)
                    IN  Life("getAllRecords", <<Prepare(prepareRc)>> \o loop.calls, loop.ended)
    /\ UNCHANGED <<schema, rows, seq, result, proc, stepError, parser, stmt, cell>>

\* one call is followed, from the state in which no statement is prepared
StmtNext ==
    \/ /\ life = NoLife
       /\ \E e \in BOOLEAN, p \in PrepareCodes, s \in StepCodes \ {"SQLITE_ROW"} :
             createTableStatement(e, p, s)
    \/ /\ life = NoLife
       /\ \E n \in 0..MaxFields, p \in PrepareCodes, s \in StepCodes \ {"SQLITE_ROW"} :
             addRecordStatement(n, p, s)
    \/ /\ life = NoLife
       /\ \E n \in 0..MaxFields, p \in PrepareCodes, s \in StepCodes \ {"SQLITE_ROW"} :
             removeRecordStatement(n, p, s)
    \/ /\ life = NoLife
       /\ \E p \in PrepareCodes, b \in BindCodes, s \in StepCodes \ {"SQLITE_ROW"} :
             removeRecordByPseudoIdStatement(p, b, s)
    \/ /\ life = NoLife
       /\ \E n \in 0..MaxFields, p \in PrepareCodes, s \in StepCodes, t \in RowTypes :
             getRecordStatement(n, p, s, t)
    \/ /\ life = NoLife
       /\ \E p \in PrepareCodes, b \in BindCodes, s \in StepCodes, t \in RowTypes :
             getRecordByPseudoIdStatement(p, b, s, t)
    \/ /\ life = NoLife
       /\ \E p \in PrepareCodes, t \in ResultTypes, s \in StepCodes \ {"SQLITE_ROW"} :
             getAllRecordsStatement(p, t, s)

SpecStmt == Init /\ [][StmtNext]_vars

\* the statement was compiled: sqlite3_prepare_v2 gave a sqlite3_stmt
Prepared == \E i \in 1..Len(life.calls) : life.calls[i] = Prepare("SQLITE_OK")

Finalized == {i \in 1..Len(life.calls) : life.calls[i].fn = "sqlite3_finalize"}

\* C22: when an operation has returned or thrown, the statement it prepared
\* has been finalized exactly once, by its last call on the statement; an
\* operation whose statement did not compile finalizes nothing.
C22_FinalizedExactlyOnce ==
    life.ended \in {"returned", "threw"} =>
        IF Prepared
        THEN Finalized = {Len(life.calls)}
        ELSE Finalized = {}

\* getAllRecords decoded a row and threw on a column of the next
C22_Witness ==
    /\ life.op = "getAllRecords" /\ life.ended = "threw"
    /\ Prepared
    /\ Cardinality({i \in 1..Len(life.calls) : life.calls[i] = Step("SQLITE_ROW")}) = 2
    /\ Cardinality(Finalized) = 1

====
